---- MODULE Spec2Model ----
(***************************************************************************)
(* Lead dashboard (src/app.py): the CSV backing store, the session's       *)
(* df_leads table, initialize_data, save_data, update_main_dataframe and   *)
(* the three page renderers, one script run at a time.                     *)
(*                                                                         *)
(* A frame (DataFrame) is [cols |-> sequence of column names,              *)
(* rows |-> sequence of rows]; a row is a function from the column names   *)
(* to cell values.  The index of a row is its LeadID cell (set_index with  *)
(* drop=False).  In the store every cell is text; in memory LeadID is an   *)
(* integer, CreatedDate a <<year, month, day>> timestamp and every other   *)
(* cell text, with NaN / NaT / None as NULL, NullID and NaT.               *)
(***************************************************************************)
EXTENDS Integers, Sequences, FiniteSets, TLC

VARIABLES
    store,        \* the file CSV_FILE: [exists, cols, rows], cells are text
    inSession,    \* 'df_leads' in st.session_state
    firstRun,     \* the session's first script run has loaded, not yet rendered
    df_leads,     \* st.session_state['df_leads']
    page,         \* the page the last script run rendered
    df_filtered,  \* render_lead_listing: the slice handed to st.data_editor
    edited_df,    \* render_lead_listing: what st.data_editor returned
    outcome,      \* how the last script run ended
    rerun,        \* the last script run called st.rerun()
    nSaves        \* calls of save_data so far

vars == <<store, inSession, firstRun, df_leads, page, df_filtered, edited_df,
          outcome, rerun, nSaves>>

-----------------------------------------------------------------------------
(* Bounds *)

MaxSaves == 1        \* calls of save_data in a behaviour of Spec
MaxRows == 2         \* records of the file a behaviour starts from
MaxRoundTrips == 2   \* save(load()) rounds in a behaviour of SpecRT

-----------------------------------------------------------------------------
(* Global settings *)

STATUS_OPTIONS ==
    <<"New", "Contacted", "Qualified", "Lost Sale", "Sold", "Disqualified", "Unreachable">>

INTEREST_OPTIONS == <<"Interested", "Holding", "Not Interested", "N/A">>

SOURCE_OPTIONS ==
    <<"Google Ads", "Facebook", "Instagram", "LinkedIn", "Websites", "Offline Events", "Other">>

DEFAULT_OWNER == "Unassigned"

expected_columns ==
    <<"LeadID", "FullName", "Location", "Status", "Phone", "Email",
      "LeadSource", "CreatedDate", "InterestStatus", "Notes",
      "EngagementScore", "Owner">>

defaults ==
    <<<<"Owner", DEFAULT_OWNER>>, <<"LeadSource", "Other">>, <<"InterestStatus", "N/A">>>>

editable_cols == <<"Status", "InterestStatus", "Notes", "LeadSource">>

default_status_filter == <<"New", "Contacted", "Qualified">>

-----------------------------------------------------------------------------
(* Cell values *)

NULL == "<NaN>"
NaT == <<>>
NullID == 0

\* The texts pandas.read_csv reads as NaN (its default na_values) that occur here.
NaTexts == {"", "N/A", "NA", "NaN", "None", "null"}

Range(s) == {s[i] : i \in DOMAIN s}

IsNA(c, v) ==
    CASE c = "LeadID" -> v = NullID
      [] c = "CreatedDate" -> v = NaT
      [] OTHER -> v = NULL

\* str(LeadID) and its inverse, for the one-digit ids of the model.
IdText == <<"1", "2", "3", "4", "5", "6", "7", "8", "9">>

FormatId(id) == IF id = NullID THEN "" ELSE IdText[id]

ParseId(text) ==
    IF text \in NaTexts THEN NullID ELSE CHOOSE i \in DOMAIN IdText : IdText[i] = text

\* pd.to_datetime(..., errors='coerce') on the texts of the model: an ISO date
\* parses, anything else (NaN included) becomes NaT.
ToDatetime(v) ==
    CASE v = "2024-01-05" -> <<2024, 1, 5>>
      [] v = "2024-02-10" -> <<2024, 2, 10>>
      [] OTHER -> NaT

\* to_csv of a datetime64 column: ISO, NaT as the empty text.
DayFirstFormatDate(d) ==
    CASE d = <<2024, 1, 5>> -> "05-01-2024"
      [] d = <<2024, 2, 10>> -> "10-02-2024"
      [] OTHER -> ""

FormatDate(d) ==
    CASE d = <<2024, 1, 5>> -> "2024-01-05"
      [] d = <<2024, 2, 10>> -> "2024-02-10"
      [] OTHER -> ""

\* .dt.to_period('M').astype(str)
FormatMonth(d) ==
    CASE d = <<2024, 1, 5>> -> "2024-01"
      [] d = <<2024, 2, 10>> -> "2024-02"
      [] OTHER -> "NaT"

-----------------------------------------------------------------------------
(* Frames *)

EmptyFrame == [cols |-> <<>>, rows |-> <<>>]

NoFile == [exists |-> FALSE, cols |-> <<>>, rows |-> <<>>]

HasCol(df, c) == c \in Range(df.cols)

\* df.empty
IsEmpty(df) == df.cols = <<>> \/ df.rows = <<>>

\* df[c] = values (appends the column when absent, overwrites it in place otherwise)
SetColumn(df, c, values) ==
    [cols |-> IF HasCol(df, c) THEN df.cols ELSE Append(df.cols, c),
     rows |-> [i \in DOMAIN df.rows |->
                 [k \in DOMAIN df.rows[i] \cup {c} |->
                    IF k = c THEN values[i] ELSE df.rows[i][k]]]]

\* pd.read_csv: blank and NA texts become NaN, the LeadID column is numeric.
ReadCell(c, text) ==
    IF c = "LeadID" THEN ParseId(text)
    ELSE IF text \in NaTexts THEN NULL ELSE text

ReadCsv(file) ==
    [cols |-> file.cols,
     rows |-> [i \in DOMAIN file.rows |->
                 [c \in Range(file.cols) |-> ReadCell(c, file.rows[i][c])]]]

\* df.to_csv(CSV_FILE, index=False)
WriteCell(c, v) ==
    CASE c = "LeadID" -> FormatId(v)
      [] c = "CreatedDate" -> FormatDate(v)
      [] OTHER -> IF v = NULL THEN "" ELSE v

ToCsv(df) ==
    [exists |-> TRUE,
     cols |-> df.cols,
     rows |-> [i \in DOMAIN df.rows |->
                 [c \in DOMAIN df.rows[i] |-> WriteCell(c, df.rows[i][c])]]]

-----------------------------------------------------------------------------
(* initialize_data *)

\* lines 107-109: a missing or zero-size file is created with the header alone
CreateIfMissing(file) ==
    IF file.exists THEN file
    ELSE [exists |-> TRUE, cols |-> expected_columns, rows |-> <<>>]

\* line 111
ParseCreatedDate(df) ==
    SetColumn(df, "CreatedDate",
              [i \in DOMAIN df.rows |-> ToDatetime(df.rows[i]["CreatedDate"])])

\* lines 113-115 for one (col, default)
FillDefault(df, col, default) ==
    SetColumn(df, col,
              [i \in DOMAIN df.rows |->
                 IF HasCol(df, col) /\ df.rows[i][col] # NULL
                 THEN df.rows[i][col] ELSE default])

\* lines 112-115
FillDefaults(df) ==
    LET d1 == FillDefault(df, defaults[1][1], defaults[1][2])
        d2 == FillDefault(d1, defaults[2][1], defaults[2][2])
    IN  FillDefault(d2, defaults[3][1], defaults[3][2])

\* line 116
NeedsLeadID(df) ==
    \/ ~HasCol(df, "LeadID")
    \/ \E i \in DOMAIN df.rows : df.rows[i]["LeadID"] = NullID

\* line 117: df.insert(0, 'LeadID', range(1, 1 + len(df))); insert refuses a
\* column that already exists (ValueError)
InsertRaises(df) == HasCol(df, "LeadID")

InsertLeadID(df) ==
    [cols |-> <<"LeadID">> \o df.cols,
     rows |-> [i \in DOMAIN df.rows |->
                 [k \in DOMAIN df.rows[i] \cup {"LeadID"} |->
                    IF k = "LeadID" THEN i ELSE df.rows[i][k]]]]

\* line 118
KeepAll(df) == df

DropNA(df) ==
    [cols |-> df.cols,
     rows |-> SelectSeq(df.rows,
                        LAMBDA r : r["FullName"] # NULL /\ r["Status"] # NULL)]

\* The frame initialize_data returns for the file as read at line 110.
LoadFrame(file) ==
    LET raw == ReadCsv(file)
    IN  IF ~HasCol(raw, "CreatedDate") THEN EmptyFrame          \* KeyError, line 111
        ELSE LET d2 == FillDefaults(ParseCreatedDate(raw))
             IN  IF NeedsLeadID(d2) /\ InsertRaises(d2) THEN EmptyFrame   \* line 117
                 ELSE LET d3 == IF NeedsLeadID(d2) THEN InsertLeadID(d2) ELSE d2
                      IN  IF ~HasCol(d3, "FullName") \/ ~HasCol(d3, "Status")
                          THEN EmptyFrame                       \* KeyError, line 118
                          ELSE DropNA(d3)

initialize_data(file) ==
    [file |-> CreateIfMissing(file), df |-> LoadFrame(CreateIfMissing(file))]

-----------------------------------------------------------------------------
(* save_data, update_main_dataframe *)

\* edited_df.equals(df_filtered): same shape, same cells, NaN equal to NaN
AlwaysDiffers(a, b) == FALSE

DataFrameEquals(a, b) == a = b

Keys(df) == {df.rows[i]["LeadID"] : i \in DOMAIN df.rows}

HasDuplicateKeys(df) ==
    \E i, j \in DOMAIN df.rows : i # j /\ df.rows[i]["LeadID"] = df.rows[j]["LeadID"]

\* DataFrame.update(other): other is reindexed to the index of self, which
\* pandas refuses when other's index has duplicate labels.  When only self has
\* several rows under a label of other, pandas up to 2.x overwrites all of them
\* and later versions may refuse: mayRefuse chooses.
UpdateRaises(original, edited, mayRefuse) ==
    \/ HasDuplicateKeys(edited)
    \/ /\ mayRefuse
       /\ \E i, j \in DOMAIN original.rows :
             /\ i # j
             /\ original.rows[i]["LeadID"] = original.rows[j]["LeadID"]
             /\ original.rows[i]["LeadID"] \in Keys(edited)

\* DataFrame.update(other), overwrite=True: aligned on the index, column by
\* column, only the non-NA cells of other overwrite.
UpdateWithNA(original, edited) ==
    [cols |-> original.cols,
     rows |-> [i \in DOMAIN original.rows |->
        LET r == original.rows[i]
            m == {j \in DOMAIN edited.rows : edited.rows[j]["LeadID"] = r["LeadID"]}
        IN  IF m = {} THEN r
            ELSE LET e == edited.rows[CHOOSE j \in m : TRUE]
                 IN  [c \in DOMAIN r |-> IF c \in DOMAIN e THEN e[c] ELSE r[c]]]]

Update(original, edited) ==
    [cols |-> original.cols,
     rows |-> [i \in DOMAIN original.rows |->
        LET r == original.rows[i]
            m == {j \in DOMAIN edited.rows : edited.rows[j]["LeadID"] = r["LeadID"]}
        IN  IF m = {} THEN r
            ELSE LET e == edited.rows[CHOOSE j \in m : TRUE]
                 IN  [c \in DOMAIN r |->
                        IF c \in DOMAIN e /\ ~IsNA(c, e[c]) THEN e[c] ELSE r[c]]]]

\* save_data(df): the file after the call; an I/O error is caught and leaves
\* the file as it was.
save_data(df, file, ioFails) == IF ioFails THEN file ELSE ToCsv(df)

-----------------------------------------------------------------------------
(* render_lead_listing: search, status filter, editor *)

\* str.contains(search_query, case=False) for the texts and queries of the model
Substrings(text) ==
    CASE text = "Alice" -> {"ali"}
      [] text \in Range(IdText) -> {text}
      [] OTHER -> {}

SearchQueries == {"", "ali"}

StatusFilters == {default_status_filter, STATUS_OPTIONS}

Filter(df, search_query, lead_status_filter) ==
    [cols |-> df.cols,
     rows |-> SelectSeq(df.rows,
        LAMBDA r :
            /\ \/ search_query = ""
               \/ search_query \in Substrings(r["FullName"])
               \/ search_query \in Substrings(FormatId(r["LeadID"]))
            /\ r["Status"] \in Range(lead_status_filter))]

\* The slices the search box and the status multiselect can produce.
Slices(df) ==
    {Filter(df, search_query, lead_status_filter) :
        search_query \in SearchQueries, lead_status_filter \in StatusFilters}

\* What the user may put into a cell of an editable column: an option of the
\* select box or a text, or nothing (the cell cleared).
EditorChoices(c) ==
    CASE c = "Status" -> {"Qualified", NULL}
      [] c = "InterestStatus" -> {"Holding", NULL}
      [] c = "Notes" -> {"called", NULL}
      [] c = "LeadSource" -> {"Instagram", NULL}

\* st.data_editor(df_filtered, disabled=disabled_cols): the slice as it is, or
\* with one cell of an editable column changed (each committed cell runs the
\* script again).
EditorOutputs(df) ==
    {df} \cup
    UNION {{[df EXCEPT !.rows[i][c] = v] : v \in EditorChoices(c)} :
              i \in DOMAIN df.rows, c \in Range(editable_cols)}

-----------------------------------------------------------------------------
(* The backing stores a session may find *)

Record(id, name, status, source, created, interest, notes, owner) ==
    [LeadID |-> id, FullName |-> name, Location |-> "Pune", Status |-> status,
     Phone |-> "555", Email |-> "",
     LeadSource |-> source, CreatedDate |-> created, InterestStatus |-> interest,
     Notes |-> notes, EngagementScore |-> "40", Owner |-> owner]

RecordPool ==
    { Record("1", "Alice", "New", "Facebook", "2024-01-05", "Interested", "call back", "Raj"),
      Record("1", "Carol", "Sold", "Other", "2024-02-10", "Holding", "", "Raj"),
      Record("", "Dan", "Contacted", "", "soon", "N/A", "", ""),
      Record("3", "", "New", "Facebook", "2024-01-05", "", "", "Raj"),
      Record("2", "Eve", "", "", "", "Interested", "new", "") }

Without(cols, dropped) == SelectSeq(cols, LAMBDA c : c \notin dropped)

Headers ==
    { expected_columns,
      Without(expected_columns, {"LeadID"}),
      Without(expected_columns, {"LeadID", "Owner", "LeadSource", "InterestStatus"}) }

\* Up to MaxRows different records of the pool, in any order.
RecordSeqs ==
    UNION {{rs \in [1..n -> RecordPool] : \A i, j \in 1..n : i # j => rs[i] # rs[j]} :
              n \in 0..MaxRows}

File(header, records) ==
    [exists |-> TRUE,
     cols |-> header,
     rows |-> [i \in DOMAIN records |-> [c \in Range(header) |-> records[i][c]]]]

InitialStores == {NoFile} \cup {File(h, rs) : h \in Headers, rs \in RecordSeqs}

-----------------------------------------------------------------------------
(* Script runs *)

Init ==
    /\ store \in InitialStores
    /\ inSession = FALSE
    /\ firstRun = FALSE
    /\ df_leads = EmptyFrame
    /\ page = "none"
    /\ df_filtered = EmptyFrame
    /\ edited_df = EmptyFrame
    /\ outcome = "none"
    /\ rerun = FALSE
    /\ nSaves = 0

\* lines 125-127 when the session has no df_leads yet
StartSession ==
    /\ ~inSession
    /\ LET r == initialize_data(store)
       IN  /\ store' = r.file
           /\ df_leads' = r.df
    /\ inSession' = TRUE
    /\ firstRun' = TRUE
    /\ page' = "none"
    /\ outcome' = "loaded"
    /\ df_filtered' = EmptyFrame
    /\ edited_df' = EmptyFrame
    /\ rerun' = FALSE
    /\ UNCHANGED nSaves

\* The session ends; session_state goes with it, the file stays.
EndSession ==
    /\ inSession
    /\ ~firstRun
    /\ inSession' = FALSE
    /\ df_leads' = EmptyFrame
    /\ page' = "none"
    /\ outcome' = "none"
    /\ df_filtered' = EmptyFrame
    /\ edited_df' = EmptyFrame
    /\ rerun' = FALSE
    /\ UNCHANGED <<store, firstRun, nSaves>>

\* render_overall_dashboard(df_leads); df is the session's frame itself, and
\* line 218 assigns a column of it.  The first run of a session renders this
\* page (index=0).
WithMonth(df) ==
    IF IsEmpty(df) THEN df
    ELSE SetColumn(df, "Month",
                   [i \in DOMAIN df.rows |-> FormatMonth(df.rows[i]["CreatedDate"])])

RenderOverallDashboard ==
    /\ inSession
    /\ df_leads' = WithMonth(df_leads)
    /\ firstRun' = FALSE
    /\ page' = "Overall Dashboard"
    /\ outcome' = "viewed"
    /\ df_filtered' = EmptyFrame
    /\ edited_df' = EmptyFrame
    /\ rerun' = FALSE
    /\ UNCHANGED <<store, inSession, nSaves>>

\* render_salesperson_dashboard(df_leads); df['Owner'] raises on a frame
\* without columns.
RenderSalespersonDashboard ==
    /\ inSession
    /\ ~firstRun
    /\ page' = "Salesperson Dashboard"
    /\ outcome' = IF HasCol(df_leads, "Owner") THEN "viewed" ELSE "raised"
    /\ df_filtered' = EmptyFrame
    /\ edited_df' = EmptyFrame
    /\ rerun' = FALSE
    /\ UNCHANGED <<store, inSession, firstRun, df_leads, nSaves>>

\* update_main_dataframe(edited_df, original_df) once update has not raised:
\* the session's table is assigned, then save_data is called, then st.rerun().
update_main_dataframe(edited, original, ioFails) ==
    /\ df_leads' = Update(original, edited)
    /\ store' = save_data(df_leads', store, ioFails)
    /\ nSaves' = nSaves + 1
    /\ outcome' = IF ioFails THEN "save_failed" ELSE "saved"
    /\ rerun' = TRUE

\* render_lead_listing(df_leads), with update_main_dataframe and save_data
\* when the editor's frame differs from the slice.
RenderLeadListing ==
    /\ inSession
    /\ ~firstRun
    /\ page' = "Lead Listings"
    /\ UNCHANGED <<inSession, firstRun>>
    /\ IF IsEmpty(df_leads)
       THEN /\ outcome' = "viewed"
            /\ df_filtered' = EmptyFrame
            /\ edited_df' = EmptyFrame
            /\ rerun' = FALSE
            /\ UNCHANGED <<store, df_leads, nSaves>>
       ELSE \E f \in Slices(df_leads) :
            \E e \in EditorOutputs(f) :
            \E ioFails \in IF DataFrameEquals(e, f) THEN {FALSE} ELSE BOOLEAN,
               mayRefuse \in IF HasDuplicateKeys(df_leads) THEN BOOLEAN ELSE {FALSE} :
               /\ df_filtered' = f
               /\ edited_df' = e
               /\ IF DataFrameEquals(e, f)
                  THEN /\ outcome' = "noop"
                       /\ rerun' = FALSE
                       /\ UNCHANGED <<store, df_leads, nSaves>>
                  ELSE IF UpdateRaises(df_leads, e, mayRefuse)
                  THEN /\ outcome' = "raised"
                       /\ rerun' = FALSE
                       /\ UNCHANGED <<store, df_leads, nSaves>>
                  ELSE /\ nSaves < MaxSaves
                       /\ update_main_dataframe(e, df_leads, ioFails)

Next ==
    \/ StartSession
    \/ EndSession
    \/ RenderOverallDashboard
    \/ RenderSalespersonDashboard
    \/ RenderLeadListing

Spec == Init /\ [][Next]_vars

\* The same runs, from a file whose header is the fixed column list (or from
\* no file, which initialize_data creates with that header).
InitExact == Init /\ (store.exists => store.cols = expected_columns)

SpecExact == InitExact /\ [][Next]_vars

-----------------------------------------------------------------------------
(* save(load()) on any file *)

RTRecordPool ==
    RecordPool \cup
    { Record("2", "Bob", "Sold", "Instagram", "2024-02-10", "Not Interested", "NA", "Unassigned") }

RTRecordSeqs == UNION {[1..n -> RTRecordPool] : n \in 0..MaxRows}

RTStores ==
    {NoFile} \cup
    {File(h, rs) : h \in Headers \cup {Without(expected_columns, {"CreatedDate"})},
                   rs \in RTRecordSeqs}

InitRT ==
    /\ store \in RTStores
    /\ inSession = FALSE
    /\ firstRun = FALSE
    /\ df_leads = EmptyFrame
    /\ page = "none"
    /\ df_filtered = EmptyFrame
    /\ edited_df = EmptyFrame
    /\ outcome = "none"
    /\ rerun = FALSE
    /\ nSaves = 0

\* save_data(initialize_data())
RoundTrip ==
    /\ nSaves < MaxRoundTrips
    /\ LET r == initialize_data(store)
       IN  /\ df_leads' = r.df
           /\ store' = save_data(r.df, r.file, FALSE)
    /\ nSaves' = nSaves + 1
    /\ outcome' = "saved"
    /\ UNCHANGED <<inSession, firstRun, page, df_filtered, edited_df, rerun>>

NextRT == RoundTrip

SpecRT == InitRT /\ [][NextRT]_vars

-----------------------------------------------------------------------------
(* Claims *)

Saved(o) == o \in {"saved", "save_failed"}

\* The positions of the records of a file that have both a FullName and a Status.
KeptPositions(file) ==
    SelectSeq([i \in DOMAIN file.rows |-> i],
              LAMBDA i : /\ file.rows[i]["FullName"] \notin NaTexts
                         /\ file.rows[i]["Status"] \notin NaTexts)

LeadIDs(df) == [i \in DOMAIN df.rows |-> df.rows[i]["LeadID"]]

\* C1: when the write of a reconciled edit fails, the session's table after
\* the run is the table from before the edit.
C1_FailedSaveKeepsTable ==
    [][outcome' = "save_failed" => df_leads' = df_leads]_vars

\* C2: a run that only renders a view (the overall dashboard, the listing
\* without an edit, the salesperson dashboard) leaves the session's table as it
\* was: same columns, same rows, same cells.
C2_ViewsLeaveTable ==
    [][outcome' \in {"viewed", "noop"} => df_leads' = df_leads]_vars

\* C3: from a file whose header is the twelve fixed columns, the file's header
\* stays exactly those columns in that order, whatever is viewed and saved.
C3_StoreHeaderFixed ==
    store.exists => store.cols = expected_columns

\* C4: when the file has no LeadID column, or a record of it has no LeadID,
\* the load numbers the records 1, 2, ..., n in file order: the rows of the
\* loaded table are the records that have a FullName and a Status, each with
\* its position in the file as LeadID.
C4_LoadAssignsDenseIDs ==
    ( /\ outcome = "loaded"
      /\ {"CreatedDate", "FullName", "Status"} \subseteq Range(store.cols)
      /\ \/ "LeadID" \notin Range(store.cols)
         \/ \E i \in DOMAIN store.rows : store.rows[i]["LeadID"] \in NaTexts )
    => LeadIDs(df_leads) = KeptPositions(store)

\* C5: no two rows of the session's table ever have the same LeadID, and no
\* run of a session changes the LeadID of a row.
C5_LeadIDUniqueAndStable ==
    [][ /\ ~HasDuplicateKeys(df_leads')
        /\ (inSession /\ inSession' => LeadIDs(df_leads') = LeadIDs(df_leads)) ]_vars

\* C6: reconciling an edited slice in which one row's Status differs changes
\* nothing of the table but the Status of that LeadID: same columns, same
\* number of rows, every other cell as before.
C6_StatusEditChangesOnlyThatField ==
    [][ \A j \in DOMAIN edited_df'.rows :
          ( /\ Saved(outcome')
            /\ edited_df'.rows[j]["Status"] # df_filtered'.rows[j]["Status"] )
          => /\ df_leads'.cols = df_leads.cols
             /\ DOMAIN df_leads'.rows = DOMAIN df_leads.rows
             /\ \A i \in DOMAIN df_leads.rows :
                  /\ DOMAIN df_leads'.rows[i] = DOMAIN df_leads.rows[i]
                  /\ \A c \in DOMAIN df_leads.rows[i] :
                       df_leads'.rows[i][c] # df_leads.rows[i][c]
                       => /\ c = "Status"
                          /\ df_leads.rows[i]["LeadID"] = edited_df'.rows[j]["LeadID"] ]_vars

\* C7 as stated: after a reconciliation every row whose key is in the edited
\* slice has, in every column of the slice, the slice's value, a cleared cell
\* included.
C7_EditedValuesWritten ==
    Saved(outcome) =>
        \A i \in DOMAIN df_leads.rows, j \in DOMAIN edited_df.rows :
            df_leads.rows[i]["LeadID"] = edited_df.rows[j]["LeadID"]
            => \A c \in DOMAIN edited_df.rows[j] :
                  df_leads.rows[i][c] = edited_df.rows[j][c]

\* C7 as amended: after a reconciliation every row whose key is in the edited
\* slice has, in every column of the slice, the slice's value where that value
\* is not null, and the value it had before where the slice's cell is null.
C7_NonNullEditedValuesWritten ==
    [][ Saved(outcome') =>
          /\ DOMAIN df_leads'.rows = DOMAIN df_leads.rows
          /\ \A i \in DOMAIN df_leads.rows, j \in DOMAIN edited_df'.rows :
               df_leads.rows[i]["LeadID"] = edited_df'.rows[j]["LeadID"]
               => \A c \in DOMAIN edited_df'.rows[j] :
                     df_leads'.rows[i][c] =
                        IF IsNA(c, edited_df'.rows[j][c])
                        THEN df_leads.rows[i][c]
                        ELSE edited_df'.rows[j][c] ]_vars

\* A reconciliation of a slice with a cleared cell has run, and the table
\* still holds a value in that cell.
C7_ClearedCellReconciled ==
    /\ outcome = "saved"
    /\ \E i \in DOMAIN df_leads.rows, j \in DOMAIN edited_df.rows :
          /\ df_leads.rows[i]["LeadID"] = edited_df.rows[j]["LeadID"]
          /\ edited_df.rows[j]["Notes"] = NULL
          /\ df_filtered.rows[j]["Notes"] # NULL
          /\ df_leads.rows[i]["Notes"] # NULL

\* C8: when the editor returns the slice unchanged, rendering the listing
\* writes no file, leaves the session's table as it was and asks for no rerun.
C8_UnchangedSliceNoReconcile ==
    [][ (page' = "Lead Listings" /\ edited_df' = df_filtered')
        => /\ store' = store
           /\ df_leads' = df_leads
           /\ nSaves' = nSaves
           /\ ~rerun' ]_vars

\* The listing was rendered over a slice with rows and the editor returned it
\* unchanged.
C8_UnchangedSliceRendered ==
    /\ page = "Lead Listings"
    /\ outcome = "noop"
    /\ df_filtered.rows # <<>>
    /\ edited_df = df_filtered

\* C9: every row of the session's table has a FullName, a Status, a LeadSource,
\* an InterestStatus and an Owner that are not null, after the load and after
\* every edit; and the loaded table has no more rows than the file has records
\* with both a FullName and a Status.
C9_RequiredFieldsPresent ==
    /\ \A i \in DOMAIN df_leads.rows :
          \A c \in {"FullName", "Status", "LeadSource", "InterestStatus", "Owner"} :
             /\ c \in DOMAIN df_leads.rows[i]
             /\ df_leads.rows[i][c] # NULL
    /\ (outcome = "loaded" /\ df_leads.rows # <<>>)
          => Len(df_leads.rows) <= Len(KeptPositions(store))

\* An edit that cleared a Status cell was reconciled and saved.
C9_ClearedStatusReconciled ==
    /\ outcome = "saved"
    /\ \E j \in DOMAIN edited_df.rows :
          /\ edited_df.rows[j]["Status"] = NULL
          /\ edited_df.rows[j]["Owner"] = DEFAULT_OWNER

====
